---- MODULE Spec2Model ----
(***************************************************************************)
(* Model of the Yelp ETL pipeline: process_pipeline.py, utils.py, conn.py. *)
(* Text is modelled as sequences of one-character strings, the output      *)
(* folder as a function from directory names to (file name -> content).    *)
(***************************************************************************)
EXTENDS Integers, Sequences, FiniteSets, TLC

VARIABLES
    pc,        \* position of the running function
    caller,    \* the entry point that was invoked
    cfg,       \* what the configuration file refers to
    indir,     \* the input files: file name -> file
    todo,      \* file names the os.listdir loop has still to visit
    fs,        \* output folder: directory -> (file name -> JSON array)
    hist,      \* the output folder as it was before each split_json_file call
    raised,    \* the exception that left the entry point, or "none"
    tasks,     \* upload_tasks
    future,    \* state of each submitted task in the worker pool
    attempts,  \* number of s3_client.upload_file calls per task
    s3,        \* keys present in the bucket
    conn,      \* warehouse connection
    cur,       \* statement cursor
    sql,       \* statements handed to cur.execute, in order
    walk,      \* (directory, file) pairs os.walk has still to yield
    cwd,       \* the directory os.walk is currently yielding files of
    max_workers \* size of the upload worker pool

vars == <<pc, caller, cfg, indir, todo, fs, hist, raised, tasks, future,
          attempts, s3, conn, cur, sql, walk, cwd, max_workers>>

-----------------------------------------------------------------------------
(* Bounds *)

MaxRecords == 4
MaxBatch == 3
MaxCalls == 2
MaxWorkers == 2

\* upload_to_s3(config_path, max_workers=10)
DefaultMaxWorkers == 10

-----------------------------------------------------------------------------
(* Text *)

Min(a, b) == IF a < b THEN a ELSE b

SetMax(S) == CHOOSE x \in S : \A y \in S : y <= x

DotJson == <<".", "j", "s", "o", "n">>

Digits == <<"0", "1", "2", "3", "4", "5", "6", "7", "8", "9">>

RECURSIVE IntToStr(_)
IntToStr(n) ==
    IF n < 10 THEN <<Digits[n + 1]>>
    ELSE IntToStr(n \div 10) \o <<Digits[(n % 10) + 1]>>

EndsWith(s, suf) ==
    /\ Len(s) >= Len(suf)
    /\ SubSeq(s, Len(s) - Len(suf) + 1, Len(s)) = suf

StartsWith(s, pre) ==
    /\ Len(s) >= Len(pre)
    /\ SubSeq(s, 1, Len(pre)) = pre

\* str.replace(old, ""): left to right, non-overlapping, every occurrence
RECURSIVE ReplaceAll(_, _)
ReplaceAll(s, old) ==
    IF Len(s) < Len(old) THEN s
    ELSE IF SubSeq(s, 1, Len(old)) = old
         THEN ReplaceAll(SubSeq(s, Len(old) + 1, Len(s)), old)
         ELSE <<Head(s)>> \o ReplaceAll(Tail(s), old)

\* s.split(sep)[-1]
LastToken(s, sep) ==
    LET at == {i \in 1..Len(s) : s[i] = sep}
    IN  IF at = {} THEN s ELSE SubSeq(s, SetMax(at) + 1, Len(s))

Basename(path) == LastToken(path, "/")

InputDir == <<"i", "n">>

OutputDir == <<"o", "u", "t">>

PathJoin(dir, name) == dir \o <<"/">> \o name

-----------------------------------------------------------------------------
(* Output folder *)

Root == <<>>

Put(f, k, v) == [x \in (DOMAIN f) \cup {k} |-> IF x = k THEN v ELSE f[x]]

EmptyDir == [x \in {} |-> <<>>]

NoFolder == [x \in {} |-> EmptyDir]

\* os.path.join(output_dir, split_key), relative to the output folder
FinalOutputDir(split_key) == split_key

Exists(tree, d) == d \in DOMAIN tree

RmTreeKeepsAll(tree, d) == tree

RmTree(tree, d) ==
    IF d = Root THEN NoFolder
    ELSE [x \in (DOMAIN tree) \ {d} |-> tree[x]]

MakeDirs(tree, d) ==
    LET withRoot == IF Root \in DOMAIN tree THEN tree ELSE Put(tree, Root, EmptyDir)
    IN  IF d \in DOMAIN withRoot THEN withRoot ELSE Put(withRoot, d, EmptyDir)

-----------------------------------------------------------------------------
(* split_json_file *)

\* an input path: no file there, or a file of lines
Missing == [exists |-> FALSE, lines |-> <<>>]

FileOf(lines) == [exists |-> TRUE, lines |-> lines]

\* a line of the input file: JSON text of a value, or text that is not JSON
GoodLine(v) == <<"json", v>>

BadLine == <<"text", 0>>

Parses(line) == line[1] = "json"

JsonLoads(line) == line[2]

BaseName(input_file) == ReplaceAll(Basename(input_file), DotJson)

SplitKey(input_file) == LastToken(BaseName(input_file), "_")

OutputFilename(split_key, n, file_count) ==
    split_key \o <<"_">> \o IntToStr(n) \o <<"_", "p", "a", "r", "t", "_">>
        \o IntToStr(file_count) \o DotJson

SplitDataShort(data, i, no_of_lines) ==
    SubSeq(data, i + 1, Min(i + no_of_lines - 1, Len(data)))

\* data[i:i + no_of_lines]
SplitData(data, i, no_of_lines) ==
    SubSeq(data, i + 1, Min(i + no_of_lines, Len(data)))

InRangeOffByOne(i, total_docs) == i + 1 < total_docs

\* membership of i in range(i, total_docs, step): the loop goes on
InRange(i, total_docs) == i < total_docs

RECURSIVE SplitLoop(_, _, _, _, _, _)
SplitLoop(dir, split_key, data, no_of_lines, i, file_count) ==
    IF ~InRange(i, Len(data)) THEN dir
    ELSE LET split_data == SplitData(data, i, no_of_lines)
             output_filename == OutputFilename(split_key, Len(split_data), file_count)
         IN  SplitLoop(Put(dir, output_filename, split_data), split_key, data,
                       no_of_lines, i + no_of_lines, file_count + 1)

\* the whole call: the folder it leaves and the exception it raises
SplitJsonFile(tree, input_file, content, no_of_lines) ==
    LET split_key == SplitKey(input_file)
        final_output_dir == FinalOutputDir(split_key)
        cleared == IF Exists(tree, final_output_dir)
                   THEN RmTree(tree, final_output_dir) ELSE tree
        made == MakeDirs(cleared, final_output_dir)
    IN  IF ~content.exists
        THEN [tree |-> made, raised |-> "FileNotFoundError"]
        ELSE IF \E k \in 1..Len(content.lines) : ~Parses(content.lines[k])
        THEN [tree |-> made, raised |-> "JSONDecodeError"]
        ELSE LET data == [k \in 1..Len(content.lines) |-> JsonLoads(content.lines[k])]
             IN  [tree |-> Put(made, final_output_dir,
                               SplitLoop(made[final_output_dir], split_key, data,
                                         no_of_lines, 0, 1)),
                  raised |-> "none"]

-----------------------------------------------------------------------------
(* Inputs *)

Str_y_biz == <<"y", "_", "b", "i", "z">> \o DotJson

Str_biz == <<"b", "i", "z">> \o DotJson

Str_a_b_tip == <<"a", "_", "b", "_", "t", "i", "p">> \o DotJson

Str_a_v1 == <<"a", "_", "v", "1">> \o DotJson \o DotJson

Str_tip_ == <<"t", "i", "p", "_">> \o DotJson

Str_a_tip_txt == <<"a", "_", "t", "i", "p", ".", "t", "x", "t">>

FileNames == {Str_y_biz, Str_biz, Str_a_b_tip, Str_a_v1, Str_tip_, Str_a_tip_txt}

Biz == <<"b", "i", "z">>

Tip == <<"t", "i", "p">>

NotesTxt == <<"n", "o", "t", "e", "s", ".", "t", "x", "t">>

Lines == {GoodLine(1), GoodLine(2), BadLine}

Contents == {FileOf(l) : l \in UNION {[1..n -> Lines] : n \in 0..MaxRecords}}

\* what an earlier run, with another input or batch size, may have left
StaleBiz ==
    Put(Put(EmptyDir, OutputFilename(Biz, 2, 1), <<1, 2>>),
        OutputFilename(Biz, 1, 9), <<2>>)

StaleTip == Put(Put(EmptyDir, OutputFilename(Tip, 1, 1), <<1>>), NotesTxt, <<>>)

RootOnly == Put(NoFolder, Root, EmptyDir)

PriorFolders ==
    { NoFolder,
      RootOnly,
      Put(Put(RootOnly, Biz, StaleBiz), Tip, StaleTip),
      Put(Put(Put(NoFolder, Root, Put(EmptyDir, NotesTxt, <<>>)), Tip, EmptyDir),
          Biz, StaleBiz) }

Config ==
    [well_formed : BOOLEAN, input_dir_exists : BOOLEAN, key_file_exists : BOOLEAN,
     aws_valid : BOOLEAN, snow_valid : BOOLEAN, no_of_lines : 1..MaxBatch]

GoodConfig(c) ==
    /\ c.well_formed /\ c.input_dir_exists /\ c.key_file_exists
    /\ c.aws_valid /\ c.snow_valid

-----------------------------------------------------------------------------
(* State outside the function under way *)

NoUpload ==
    /\ tasks = <<>> /\ future = <<>> /\ attempts = <<>> /\ s3 = {}
    /\ max_workers = DefaultMaxWorkers

NoLoad ==
    /\ conn = "none" /\ cur = "none" /\ sql = <<>>

NoWalk ==
    /\ walk = {} /\ cwd = Root

uploadVars == <<tasks, future, attempts, s3, max_workers>>

loadVars == <<conn, cur, sql>>

walkVars == <<walk, cwd>>

splitVars == <<indir, todo, fs, hist>>

-----------------------------------------------------------------------------
(* split_json_file called directly, and called again with the same arguments *)

InitSplit ==
    /\ pc = "split"
    /\ caller = "split_json_file"
    /\ cfg \in {c \in Config : GoodConfig(c)}
    /\ \E f \in FileNames, content \in Contents \cup {Missing} :
          /\ indir = [x \in {f} |-> content]
          /\ todo = {f}
    /\ fs \in PriorFolders
    /\ hist = <<>>
    /\ raised = "none"
    /\ NoUpload
    /\ NoLoad
    /\ NoWalk

\* process_pipeline.py:51-53 and the direct call: one split_json_file call
SplitStep ==
    /\ pc = "split"
    /\ \E f \in todo :
          LET r == SplitJsonFile(fs, PathJoin(InputDir, f), indir[f], cfg.no_of_lines)
          IN  /\ fs' = r.tree
              /\ hist' = Append(hist, fs)
              /\ raised' = r.raised
              /\ todo' = todo \ {f}
              /\ pc' = IF r.raised # "none" THEN "raised"
                       ELSE IF caller = "process_pipeline" THEN "split"
                       ELSE "returned"
    /\ UNCHANGED <<caller, cfg, indir, uploadVars, loadVars, walkVars>>

CallAgain ==
    /\ caller = "split_json_file"
    /\ pc = "returned"
    /\ Len(hist) < MaxCalls
    /\ todo' = DOMAIN indir
    /\ pc' = "split"
    /\ UNCHANGED <<caller, cfg, indir, fs, hist, raised, uploadVars, loadVars, walkVars>>

NextSplit == SplitStep \/ CallAgain

SpecSplit == InitSplit /\ [][NextSplit]_vars

-----------------------------------------------------------------------------
(* Properties of split_json_file *)

ArgFile == CHOOSE f \in DOMAIN indir : TRUE

ArgRecords == [k \in 1..Len(indir[ArgFile].lines) |-> indir[ArgFile].lines[k][2]]

SplitReturned ==
    /\ caller = "split_json_file"
    /\ pc = "returned"
    /\ raised = "none"

Ceil(n, b) == (n + b - 1) \div b

PartSuffix(k) == <<"_", "p", "a", "r", "t", "_">> \o IntToStr(k) \o DotJson

PartFiles(dir, k) == {name \in DOMAIN dir : EndsWith(name, PartSuffix(k))}

PartFile(dir, k) == CHOOSE name \in PartFiles(dir, k) : TRUE

RECURSIVE ConcatParts(_, _, _)
ConcatParts(dir, k, n) ==
    IF k > n THEN <<>> ELSE dir[PartFile(dir, k)] \o ConcatParts(dir, k + 1, n)

RECURSIVE SumLens(_, _, _)
SumLens(dir, k, n) ==
    IF k > n THEN 0 ELSE Len(dir[PartFile(dir, k)]) + SumLens(dir, k + 1, n)

\* C1: splitting N records with batch size B writes ceil(N/B) batch files,
\* whose record counts sum to N and whose contents, concatenated in the order
\* of their sequence numbers, are the input records in their original order.
C1_SplitPartition ==
    SplitReturned =>
        LET dir == fs[SplitKey(ArgFile)]
            n == Ceil(Len(ArgRecords), cfg.no_of_lines)
        IN  /\ Cardinality(DOMAIN dir) = n
            /\ \A k \in 1..n : Cardinality(PartFiles(dir, k)) = 1
            /\ SumLens(dir, 1, n) = Len(ArgRecords)
            /\ ConcatParts(dir, 1, n) = ArgRecords

C1_Witness ==
    /\ SplitReturned
    /\ Len(ArgRecords) = 3
    /\ cfg.no_of_lines = 2
    /\ ArgRecords[1] # ArgRecords[2]

\* C4 (as claimed): when split_json_file fails on a missing input file or a
\* line that is not JSON, the output folder is exactly as it was before the call.
C4_InputErrorLeavesFolder ==
    (/\ caller = "split_json_file"
     /\ pc = "raised"
     /\ raised \in {"FileNotFoundError", "JSONDecodeError"})
        => fs = hist[Len(hist)]

ExpectedBatches(split_key, data, b) ==
    LET n == Ceil(Len(data), b)
        size(k) == Min(b, Len(data) - (k - 1) * b)
        nameOf(k) == OutputFilename(split_key, size(k), k)
    IN  [name \in {nameOf(k) : k \in 1..n} |->
            LET k == CHOOSE j \in 1..n : nameOf(j) = name
            IN  SubSeq(data, (k - 1) * b + 1, (k - 1) * b + size(k))]

\* C6: whatever the dataset subdirectory held before, after a successful split
\* it holds exactly the batch files of this run, and a second run on the same
\* input leaves the folder as the first run left it.
C6_DestructiveIdempotent ==
    SplitReturned =>
        /\ fs[SplitKey(ArgFile)] = ExpectedBatches(SplitKey(ArgFile), ArgRecords, cfg.no_of_lines)
        /\ Len(hist) = 2 => fs = hist[2]

C6_Witness ==
    /\ SplitReturned
    /\ Len(hist) = 2
    /\ SplitKey(ArgFile) \in DOMAIN hist[1]
    /\ \E stale \in DOMAIN hist[1][SplitKey(ArgFile)] :
          stale \notin DOMAIN fs[SplitKey(ArgFile)]
    /\ Len(ArgRecords) > cfg.no_of_lines

\* C7 (as claimed): with batch size B >= N the split writes exactly one batch
\* file, holding all N records.
C7_OneBatchAnyN ==
    (SplitReturned /\ cfg.no_of_lines >= Len(ArgRecords)) =>
        LET dir == fs[SplitKey(ArgFile)]
        IN  /\ Cardinality(DOMAIN dir) = 1
            /\ \A name \in DOMAIN dir : dir[name] = ArgRecords

\* C7 (amended): with N >= 1 records and batch size B >= N the split writes
\* exactly one batch file, holding all N records.
C7_OneBatch ==
    (SplitReturned /\ Len(ArgRecords) >= 1 /\ cfg.no_of_lines >= Len(ArgRecords)) =>
        LET dir == fs[SplitKey(ArgFile)]
        IN  /\ Cardinality(DOMAIN dir) = 1
            /\ \A name \in DOMAIN dir : dir[name] = ArgRecords

C7_Witness ==
    /\ SplitReturned
    /\ Len(ArgRecords) = 2
    /\ cfg.no_of_lines >= 2
    /\ Cardinality(DOMAIN fs[SplitKey(ArgFile)]) = 1

\* os.path.splitext(name)[0]: the name without its trailing extension
StripExtension(name) ==
    LET at == {i \in 2..Len(name) : name[i] = "."}
    IN  IF at = {} THEN name ELSE SubSeq(name, 1, SetMax(at) - 1)

ClaimedDataset(name) == LastToken(StripExtension(name), "_")

\* C10 (as claimed): the dataset name is the last "_"-delimited token of the
\* file name without its trailing extension; the output subdirectory has that
\* name and every batch file name starts with it.
C10_DatasetName ==
    SplitReturned =>
        LET name == ClaimedDataset(ArgFile)
        IN  /\ name \in DOMAIN fs
            /\ \A file \in DOMAIN fs[name] : StartsWith(file, name \o <<"_">>)
            /\ Len(ArgRecords) > 0 => DOMAIN fs[name] # {}

-----------------------------------------------------------------------------
(* os.walk over the output folder *)

\* every (directory, file) pair under the output folder
WalkAll(tree) == UNION {{<<d, f>> : f \in DOMAIN tree[d]} : d \in DOMAIN tree}

\* the files os.walk may yield next: those of the directory under way first
WalkNext == IF \E e \in walk : e[1] = cwd THEN {e \in walk : e[1] = cwd} ELSE walk

\* the path of a directory of the output folder
DirPath(d) == IF d = Root THEN OutputDir ELSE PathJoin(OutputDir, d)

\* os.path.relpath(local_file_path, local_dir)
RelPath(d, f) == IF d = Root THEN f ELSE PathJoin(d, f)

-----------------------------------------------------------------------------
(* upload_to_s3 *)

S3Prefix == <<"d", "s">>

S3Key(d, f) == PathJoin(S3Prefix, RelPath(d, f))

\* utils.py:166-180: parse the configuration, make the client, start the walk
UploadBegin ==
    /\ pc = "upload"
    /\ IF ~cfg.well_formed
       THEN /\ raised' = "ConfigError"
            /\ pc' = "raised"
            /\ UNCHANGED walkVars
       ELSE /\ walk' = WalkAll(fs)
            /\ cwd' = Root
            /\ pc' = "upload_collect"
            /\ UNCHANGED raised
    /\ UNCHANGED <<caller, cfg, splitVars, uploadVars, loadVars>>

\* utils.py:181-189: one file of the walk becomes an upload task
UploadCollect ==
    /\ pc = "upload_collect"
    /\ \E e \in WalkNext :
          /\ walk' = walk \ {e}
          /\ cwd' = e[1]
          /\ tasks' = Append(tasks, [s3_key |-> S3Key(e[1], e[2]),
                                     local_file_path |-> PathJoin(DirPath(e[1]), e[2])])
    /\ UNCHANGED <<pc, caller, cfg, splitVars, raised, future, attempts, s3,
                   max_workers, loadVars>>

\* utils.py:192-193: executor.map submits every task to the pool
UploadSubmit ==
    /\ pc = "upload_collect"
    /\ walk = {}
    /\ future' = [i \in 1..Len(tasks) |-> "queued"]
    /\ attempts' = [i \in 1..Len(tasks) |-> 0]
    /\ pc' = "upload_wait"
    /\ UNCHANGED <<caller, cfg, splitVars, raised, tasks, s3, max_workers,
                   loadVars, walkVars>>

Running(fut) == {i \in DOMAIN fut : fut[i] = "running"}

\* a pool thread takes the oldest queued task and calls upload_file_to_s3
WorkerTake ==
    /\ Cardinality(Running(future)) < max_workers
    /\ \E i \in DOMAIN future :
          /\ future[i] = "queued"
          /\ \A j \in 1..(i - 1) : future[j] # "queued"
          /\ future' = [future EXCEPT ![i] = "running"]
          /\ attempts' = [attempts EXCEPT ![i] = @ + 1]
    /\ UNCHANGED <<pc, caller, cfg, splitVars, raised, tasks, s3, max_workers,
                   loadVars, walkVars>>

RequeueOnError(outcome) == IF outcome = "ok" THEN "uploaded" ELSE "queued"

\* utils.py:145-149: the state of the task once upload_file_to_s3 is over;
\* the exception of a failed upload is caught and printed
FutureAfter(outcome) == IF outcome = "ok" THEN "uploaded" ELSE "failed"

UploadOutcomes == IF cfg.aws_valid THEN {"ok", "error"} ELSE {"error"}

\* s3_client.upload_file returns or raises
WorkerDone ==
    /\ \E i \in DOMAIN future, outcome \in UploadOutcomes :
          /\ future[i] = "running"
          /\ future' = [future EXCEPT ![i] = FutureAfter(outcome)]
          /\ s3' = IF outcome = "ok" THEN s3 \cup {tasks[i].s3_key} ELSE s3
    /\ UNCHANGED <<pc, caller, cfg, splitVars, raised, tasks, attempts,
                   max_workers, loadVars, walkVars>>

ShutdownNoWait(fut) == TRUE

\* utils.py:192: leaving the with block is executor.shutdown(wait=True)
ShutdownDone(fut) == \A i \in DOMAIN fut : fut[i] \in {"uploaded", "failed"}

\* utils.py:192-195: the pool is shut down, success is printed, the call returns
UploadReturn ==
    /\ pc = "upload_wait"
    /\ ShutdownDone(future)
    /\ pc' = IF caller = "process_pipeline" THEN "load" ELSE "returned"
    /\ UNCHANGED <<caller, cfg, splitVars, raised, uploadVars, loadVars, walkVars>>

Folders ==
    PriorFolders \cup
    { Put(Put(RootOnly, Tip, Put(EmptyDir, NotesTxt, <<>>)),
          Biz, Put(EmptyDir, OutputFilename(Biz, 1, 1), <<1>>)) }

InitUpload ==
    /\ pc = "upload"
    /\ caller = "upload_to_s3"
    /\ cfg \in {c \in Config : /\ c.input_dir_exists /\ c.key_file_exists
                               /\ c.snow_valid /\ c.no_of_lines = 1}
    /\ \E f \in {Str_y_biz} : indir = [x \in {f} |-> FileOf(<<>>)]
    /\ todo = {}
    /\ fs \in Folders
    /\ hist = <<>>
    /\ raised = "none"
    /\ tasks = <<>> /\ future = <<>> /\ attempts = <<>> /\ s3 = {}
    /\ max_workers \in 1..MaxWorkers
    /\ NoLoad
    /\ NoWalk

NextUpload ==
    UploadBegin \/ UploadCollect \/ UploadSubmit \/ WorkerTake \/ WorkerDone \/ UploadReturn

SpecUpload == InitUpload /\ [][NextUpload]_vars

NoTaskPending == \A i \in DOMAIN future : future[i] \in {"uploaded", "failed"}

\* C3: in one upload_to_s3 run every file under the local root has its upload
\* attempted exactly once, whatever the outcomes of the others; a failed upload
\* is not retried, no upload failure reaches the caller, and the call returns.
C3_UploadsIsolated ==
    /\ raised = "none" \/ (raised = "ConfigError" /\ ~cfg.well_formed)
    /\ \A i \in DOMAIN attempts : attempts[i] <= 1
    /\ (caller = "upload_to_s3" /\ pc = "returned") =>
          /\ {<<t.s3_key, t.local_file_path>> : t \in {tasks[i] : i \in DOMAIN tasks}}
                = {<<S3Key(e[1], e[2]), PathJoin(DirPath(e[1]), e[2])>> : e \in WalkAll(fs)}
          /\ Len(tasks) = Cardinality(WalkAll(fs))
          /\ \A i \in DOMAIN tasks : attempts[i] = 1
    /\ (caller = "upload_to_s3" /\ pc = "upload_wait") =>
          (NoTaskPending \/ ENABLED WorkerTake \/ ENABLED WorkerDone)

C3_Witness ==
    /\ caller = "upload_to_s3"
    /\ pc = "returned"
    /\ \E i, j \in DOMAIN future : future[i] = "failed" /\ future[j] = "uploaded"

-----------------------------------------------------------------------------
(* data_load and snow_conn *)

CreateStage == [kind |-> "create_stage", table |-> <<>>]

CreateTable(t) == [kind |-> "create_table", table |-> t]

CopyInto(t) == [kind |-> "copy_into", table |-> t]

\* os.path.basename(root)
TableName(d) == Basename(DirPath(d))

\* conn.py:53-96: the exception snow_conn raises, or "none"
SnowConn(c) ==
    IF ~c.well_formed THEN "ConfigError"
    ELSE IF ~c.key_file_exists THEN "FileNotFoundError"
    ELSE IF ~c.snow_valid THEN "Exception"
    ELSE "none"

\* utils.py:214-228: parse the configuration, connect, open the cursor
LoadConnect ==
    /\ pc = "load"
    /\ IF SnowConn(cfg) # "none"
       THEN /\ raised' = SnowConn(cfg)
            /\ pc' = "raised"
            /\ UNCHANGED <<conn, cur>>
       ELSE /\ conn' = "open"
            /\ cur' = "open"
            /\ pc' = "load_stage"
            /\ UNCHANGED raised
    /\ UNCHANGED <<caller, cfg, splitVars, uploadVars, sql, walkVars>>

\* utils.py:231-243: the stage statement, then the walk starts
LoadStage ==
    /\ pc = "load_stage"
    /\ sql' = Append(sql, CreateStage)
    /\ \/ /\ walk' = WalkAll(fs)
          /\ cwd' = Root
          /\ pc' = "load_walk"
          /\ UNCHANGED raised
       \/ /\ raised' = "ProgrammingError"
          /\ pc' = "raised"
          /\ UNCHANGED walkVars
    /\ UNCHANGED <<caller, cfg, splitVars, uploadVars, conn, cur>>

\* utils.py:244-265: one file of the walk
LoadFile ==
    /\ pc = "load_walk"
    /\ \E e \in WalkNext :
          /\ walk' = walk \ {e}
          /\ cwd' = e[1]
          /\ IF EndsWith(e[2], DotJson)
             THEN \/ /\ sql' = sql \o <<CreateTable(TableName(e[1])), CopyInto(TableName(e[1]))>>
                     /\ UNCHANGED <<pc, raised>>
                  \/ /\ sql' = Append(sql, CreateTable(TableName(e[1])))
                     /\ raised' = "ProgrammingError"
                     /\ pc' = "raised"
                  \/ /\ sql' = sql \o <<CreateTable(TableName(e[1])), CopyInto(TableName(e[1]))>>
                     /\ raised' = "ProgrammingError"
                     /\ pc' = "raised"
             ELSE UNCHANGED <<sql, pc, raised>>
    /\ UNCHANGED <<caller, cfg, splitVars, uploadVars, conn, cur>>

\* utils.py:267-270: the cursor and the connection are closed, the call returns
LoadClose ==
    /\ pc = "load_walk"
    /\ walk = {}
    /\ cur' = "closed"
    /\ conn' = "closed"
    /\ pc' = "returned"
    /\ UNCHANGED <<caller, cfg, splitVars, uploadVars, raised, sql, walkVars>>

InitLoad ==
    /\ pc = "load"
    /\ caller = "data_load"
    /\ cfg \in {c \in Config : c.input_dir_exists /\ c.aws_valid /\ c.no_of_lines = 1}
    /\ \E f \in {Str_y_biz} : indir = [x \in {f} |-> FileOf(<<>>)]
    /\ todo = {}
    /\ fs \in Folders
    /\ hist = <<>>
    /\ raised = "none"
    /\ NoUpload
    /\ NoLoad
    /\ NoWalk

NextLoad == LoadConnect \/ LoadStage \/ LoadFile \/ LoadClose

SpecLoad == InitLoad /\ [][NextLoad]_vars

Count(kind, t) == Cardinality({i \in DOMAIN sql : sql[i] = [kind |-> kind, table |-> t]})

JsonDirs(tree) == {d \in DOMAIN tree : \E f \in DOMAIN tree[d] : EndsWith(f, DotJson)}

LoadReturned == caller = "data_load" /\ pc = "returned"

\* C2 (as claimed): a data_load run issues one stage statement, and for each
\* subdirectory holding at least one .json file exactly one create-table and
\* one copy statement for its table; for the other subdirectories none.
C2_OneLoadPerDirectory ==
    LoadReturned =>
        /\ Count("create_stage", <<>>) = 1
        /\ \A d \in JsonDirs(fs) :
              /\ Count("create_table", TableName(d)) = 1
              /\ Count("copy_into", TableName(d)) = 1
        /\ \A d \in (DOMAIN fs) \ JsonDirs(fs) :
              /\ Count("create_table", TableName(d)) = 0
              /\ Count("copy_into", TableName(d)) = 0

\* C8 (as claimed): whenever data_load opened the connection, the cursor and
\* the connection are closed when the invocation is over, and no statement is
\* executed after the close.
C8_ConnectionClosed ==
    /\ (caller = "data_load" /\ pc \in {"returned", "raised"} /\ conn # "none") =>
          (conn = "closed" /\ cur = "closed")
    /\ conn = "closed" => pc \in {"returned", "raised"}

-----------------------------------------------------------------------------
(* process_pipeline *)

\* process_pipeline.py:42
ParseConfig ==
    /\ pc = "parse"
    /\ IF cfg.well_formed
       THEN pc' = "listdir" /\ UNCHANGED raised
       ELSE pc' = "raised" /\ raised' = "ConfigError"
    /\ UNCHANGED <<caller, cfg, splitVars, uploadVars, loadVars, walkVars>>

\* process_pipeline.py:49-50: os.listdir and the .json filter
ListDir ==
    /\ pc = "listdir"
    /\ IF cfg.input_dir_exists
       THEN /\ todo' = {f \in DOMAIN indir : EndsWith(f, DotJson)}
            /\ pc' = "split"
            /\ UNCHANGED raised
       ELSE /\ raised' = "FileNotFoundError"
            /\ pc' = "raised"
            /\ UNCHANGED todo
    /\ UNCHANGED <<caller, cfg, indir, fs, hist, uploadVars, loadVars, walkVars>>

\* process_pipeline.py:49-56: the loop is over, upload_to_s3 is called
SplitLoopExit ==
    /\ caller = "process_pipeline"
    /\ pc = "split"
    /\ todo = {}
    /\ pc' = "upload"
    /\ UNCHANGED <<caller, cfg, splitVars, raised, uploadVars, loadVars, walkVars>>

PipelineInputs ==
    { [x \in {Str_y_biz} |-> FileOf(<<GoodLine(1), GoodLine(2)>>)],
      [x \in {Str_y_biz, Str_a_tip_txt} |->
          IF x = Str_y_biz THEN FileOf(<<GoodLine(1)>>) ELSE FileOf(<<BadLine>>)],
      [x \in {Str_y_biz, Str_a_b_tip} |->
          IF x = Str_y_biz THEN FileOf(<<GoodLine(2)>>) ELSE FileOf(<<GoodLine(1), BadLine>>)],
      [x \in {Str_biz, Str_a_b_tip} |->
          IF x = Str_biz THEN FileOf(<<GoodLine(1), GoodLine(1)>>) ELSE FileOf(<<GoodLine(2)>>)] }

Init ==
    /\ pc = "parse"
    /\ caller = "process_pipeline"
    /\ cfg \in Config
    /\ indir \in PipelineInputs
    /\ todo = {}
    /\ fs \in {NoFolder, Put(Put(RootOnly, Biz, StaleBiz), Tip, EmptyDir)}
    /\ hist = <<>>
    /\ raised = "none"
    /\ NoUpload
    /\ NoLoad
    /\ NoWalk

Next ==
    \/ ParseConfig \/ ListDir \/ SplitStep \/ SplitLoopExit
    \/ UploadBegin \/ UploadCollect \/ UploadSubmit
    \/ WorkerTake \/ WorkerDone \/ UploadReturn
    \/ LoadConnect \/ LoadStage \/ LoadFile \/ LoadClose

Spec == Init /\ [][Next]_vars

Unresolved(c) ==
    \/ ~c.well_formed \/ ~c.input_dir_exists \/ ~c.key_file_exists
    \/ ~c.aws_valid \/ ~c.snow_valid

InitialFolder == IF hist = <<>> THEN fs ELSE hist[1]

\* C5 (as claimed): when a path or credential of the configuration does not
\* resolve, the run fails before any I/O: the output folder is untouched, no
\* upload is attempted and no statement is issued.
C5_ResolveBeforeIO ==
    Unresolved(cfg) =>
        /\ fs = InitialFolder
        /\ \A i \in DOMAIN attempts : attempts[i] = 0
        /\ sql = <<>>

\* C9: the run is staged split, upload, load: no upload task starts while an
\* input file is still to be split, no statement is issued and the connection
\* is not opened while a submitted upload task is unfinished, and no worker
\* runs once upload_to_s3 has returned.
C9_Staged ==
    /\ (\E i \in DOMAIN attempts : attempts[i] > 0) => (todo = {} /\ pc # "split")
    /\ (sql # <<>> \/ conn # "none") => NoTaskPending
    /\ pc \in {"load", "load_stage", "load_walk", "returned"} =>
          /\ NoTaskPending
          /\ Len(future) = Len(tasks)
    /\ pc \in {"parse", "listdir", "split", "upload", "upload_collect"} =>
          (future = <<>> /\ sql = <<>> /\ conn = "none")
    /\ pc \in {"parse", "listdir", "split"} => tasks = <<>>

C9_Witness ==
    /\ caller = "process_pipeline"
    /\ pc = "returned"
    /\ Len(hist) = 2
    /\ \E i, j \in DOMAIN future : future[i] = "failed" /\ future[j] = "uploaded"
    /\ Len(sql) >= 3

====
